---- MODULE Spec2Model ----
(***************************************************************************)
(* Receive-side core of RustDDS: the fragment assembler                    *)
(* (src/src/dds/fragment_assembler.rs) and the per-topic sample cache      *)
(* (src/src/structure/dds_cache.rs).                                       *)
(*                                                                         *)
(* Byte buffers are sequences of naturals; the Rust slice buf[a..b] is     *)
(* SubSeq(buf, a+1, b).  A panic is an explicit outcome of every operator  *)
(* that can panic, together with the state the panic leaves behind.        *)
(***************************************************************************)
EXTENDS Integers, Sequences, FiniteSets, TLC

(* ------------------------------ bounds -------------------------------- *)
MaxSN == 1
MaxDataSize == 11
MaxClock == 1
MaxInstant == 3
MaxTopicInstant == 2
MaxLog == 3
NumThreads == 2

(* inputs of the model *)
FragSizes == {5, 8}
SNs == 1..MaxSN
DataSizes == 5..MaxDataSize
FlagSets == {{}, {"Key"}}

(* ======================= fragment_assembler.rs ======================== *)

VARIABLES
  fragment_size,     \* FragmentAssembler.fragment_size
  assembly_buffers,  \* FragmentAssembler.assembly_buffers : SN -> AssemblyBuffer
  now,               \* the value Timestamp::now() returns
  fa_panicked,       \* the thread owning the assembler has panicked
  fa_call,           \* the last call of new_datafrag: its arguments and result
  sent,              \* size and representation of the samples the remote writer sends
  delivered          \* fragment numbers handed to the in-progress buffer of each writer_sn

VARIABLES
  changes,           \* DDSHistoryCache.changes of a history cache used on its own
  hc_panicked,       \* the thread owning that history cache has panicked
  hc_call,           \* the last call on it: its arguments and result
  hc_log             \* the add_change / remove_change calls made on it, in order

VARIABLES
  topic_caches,      \* DDSCache.topic_caches : topic name -> TopicCache
  cache_call,        \* the last call on the DDSCache: its arguments and result
  cache_panicked,    \* the single owner of an unshared DDSCache has panicked
  pc,                \* per thread sharing the cache: "idle", "read", "write" (guard held), "panicked"
  poisoned,          \* the RwLock around the shared cache is poisoned
  added              \* per topic of the shared cache, since the topic was created: how many
                     \* add_change calls returned, by which threads, and whether one of
                     \* them came with an instant below one already stored

fa_vars == <<fragment_size, assembly_buffers, now, fa_panicked, fa_call, sent, delivered>>
hc_vars == <<changes, hc_panicked, hc_call, hc_log>>
cache_vars == <<topic_caches, cache_call, cache_panicked, pc, poisoned, added>>

vars == <<fragment_size, assembly_buffers, now, fa_panicked, fa_call, sent, delivered,
          changes, hc_panicked, hc_call, hc_log,
          topic_caches, cache_call, cache_panicked, pc, poisoned, added>>

(* -------- RepresentationIdentifier and DDSData (outside src/) --------- *)
RepIds == {"CDR_BE", "CDR_LE"}

\* an identifier a DATA_FRAG can carry and from_bytes does not know
UnknownRepIds == {"VENDOR"}

to_bytes(rep_id) ==
  CASE rep_id = "CDR_BE" -> <<0, 0>>
    [] rep_id = "CDR_LE" -> <<0, 1>>
    [] rep_id = "PL_CDR_BE" -> <<0, 2>>
    [] rep_id = "PL_CDR_LE" -> <<0, 3>>
    [] rep_id = "VENDOR" -> <<128, 1>>

\* Result<RepresentationIdentifier, _>: "Err" for two bytes that name no identifier
from_bytes(bytes) ==
  IF bytes[1] = 0 /\ bytes[2] \in 0..3
    THEN CASE bytes[2] = 0 -> "CDR_BE"
           [] bytes[2] = 1 -> "CDR_LE"
           [] bytes[2] = 2 -> "PL_CDR_BE"
           [] bytes[2] = 3 -> "PL_CDR_LE"
    ELSE "Err"

SerializedPayload_new(rep_id, value) ==
  [representation_identifier |-> rep_id, value |-> value]

DDSData_new(payload) ==
  [kind |-> "Alive", key_only |-> FALSE, payload |-> payload]

DDSData_new_disposed_by_key(change_kind, key) ==
  [kind |-> change_kind, key_only |-> TRUE, payload |-> key]

None == [some |-> FALSE]
Some(v) == [some |-> TRUE, v |-> v]

(* --------------------------- the sender ------------------------------- *)
\* user byte at (1-based) offset i of the serialized sample sn; never 0, the
\* value the assembly buffer is initialised with
PatternByte(sn, i) == ((i * sn) % 7) + 1

\* the serialized sample: 2 bytes identifier, 2 bytes options, user bytes
Serialized(sn, s) ==
  [i \in 1..s.data_size |->
     IF i <= 2 THEN to_bytes(s.rep_id)[i]
     ELSE IF i <= 4 THEN 0
     ELSE PatternByte(sn, i)]

Min(a, b) == IF a <= b THEN a ELSE b

FragmentCount(data_size, frag_size) ==
  (data_size \div frag_size) + (IF data_size % frag_size = 0 THEN 0 ELSE 1)

\* the DATA_FRAG an honest writer sends for fragments k .. k+n-1 of sample sn:
\* the prefix is taken out of fragment 1 into the payload's header fields
HonestFrag(sn, k, n) ==
  LET s == sent
      F == fragment_size
      raw == SubSeq(Serialized(sn, s), (k - 1) * F + 1, Min((k + n - 1) * F, s.data_size))
  IN [writer_sn |-> sn,
      data_size |-> s.data_size,
      fragment_starting_num |-> k,
      fragments_in_submessage |-> n,
      serialized_payload |->
        [representation_identifier |-> s.rep_id,
         representation_options |-> <<0, 0>>,
         value |-> IF k = 1 THEN SubSeq(raw, 5, Len(raw)) ELSE raw]]

(* -------------------------- AssemblyBuffer ---------------------------- *)
\* AssemblyBuffer::new that counts whole fragments only
AssemblyBuffer_new_floor(data_size, frag_size, t) ==
  LET fragment_count == data_size \div frag_size
  IN [buffer_bytes |-> [i \in 1..data_size |-> 0],
      fragment_count |-> fragment_count,
      received_bitmap |-> [i \in 1..fragment_count |-> FALSE],
      modified_time |-> t]

\* created_time is set in new and neither read nor written again; the record
\* keeps the timestamp that changes, modified_time.
AssemblyBuffer_new(data_size, frag_size, t) ==
  LET fragment_count ==
        (data_size \div frag_size) + (IF data_size % frag_size = 0 THEN 0 ELSE 1)
  IN [buffer_bytes |-> [i \in 1..data_size |-> 0],
      fragment_count |-> fragment_count,
      received_bitmap |-> [i \in 1..fragment_count |-> FALSE],
      modified_time |-> t]

\* the bytes 0..4 of the buffer after the two header copies; the first copy
\* needs 2 bytes of buffer, the second 4
HeaderFilled(buf, payload) ==
  [i \in 1..Len(buf) |->
     IF i <= 2 THEN to_bytes(payload.representation_identifier)[i]
     ELSE IF i <= 4 /\ Len(buf) >= 4 THEN payload.representation_options[i - 2]
     ELSE buf[i]]

\* buffer_bytes[from..to].copy_from_slice(value)
CopyFromSlice(buf, from, to, value) ==
  [i \in 1..Len(buf) |-> IF i > from /\ i <= to THEN value[i - from] ELSE buf[i]]

\* received_bitmap.set(start + f, true) for f in 0..n, as far as the bitmap reaches
SetBits(bitmap, start, n) ==
  [i \in 1..Len(bitmap) |-> IF i > start /\ i <= start + n THEN TRUE ELSE bitmap[i]]

\* The result is the buffer as the call leaves it and whether the call panicked.
\* fragment_starting_num = 0: the subtraction overflows; a build with overflow
\* checks panics there, a build without wraps to a start offset beyond every
\* buffer and panics at the slice.
insert_frags(abuf, datafrag, frag_size, t) ==
  LET frags_in_subm == datafrag.fragments_in_submessage
      fragment_starting_num == datafrag.fragment_starting_num
      value == datafrag.serialized_payload.value
      len == Len(abuf.buffer_bytes)
  IN IF fragment_starting_num = 0 THEN [panicked |-> TRUE, abuf |-> abuf]
     ELSE
      LET start_frag_from_0 == fragment_starting_num - 1
          room_for_sp_header == IF start_frag_from_0 = 0 THEN 4 ELSE 0
          from_byte0 == start_frag_from_0 * frag_size
          to_before_byte ==
            IF fragment_starting_num < abuf.fragment_count
              THEN from_byte0 + (frags_in_subm * frag_size)
              ELSE from_byte0 + Len(value)
          from_byte == from_byte0 + room_for_sp_header
          header_ok == start_frag_from_0 # 0 \/ len >= 4
          with_header ==
            IF start_frag_from_0 = 0 /\ len >= 2
              THEN HeaderFilled(abuf.buffer_bytes, datafrag.serialized_payload)
              ELSE abuf.buffer_bytes
          copy_ok == /\ from_byte <= to_before_byte
                     /\ to_before_byte <= len
                     /\ to_before_byte - from_byte = Len(value)
          bits_ok == start_frag_from_0 + frags_in_subm <= Len(abuf.received_bitmap)
      IN IF ~header_ok \/ ~copy_ok
           THEN [panicked |-> TRUE,
                 abuf |-> [abuf EXCEPT !.buffer_bytes = with_header]]
         ELSE IF ~bits_ok
           THEN [panicked |-> TRUE,
                 abuf |-> [abuf EXCEPT
                    !.buffer_bytes = CopyFromSlice(with_header, from_byte, to_before_byte, value),
                    !.received_bitmap = SetBits(abuf.received_bitmap, start_frag_from_0, frags_in_subm)]]
         ELSE [panicked |-> FALSE,
               abuf |-> [abuf EXCEPT
                    !.buffer_bytes = CopyFromSlice(with_header, from_byte, to_before_byte, value),
                    !.received_bitmap = SetBits(abuf.received_bitmap, start_frag_from_0, frags_in_subm),
                    !.modified_time = t]]

is_complete(abuf) ==
  \A i \in 1..Len(abuf.received_bitmap) : abuf.received_bitmap[i]

(* ------------------------- FragmentAssembler -------------------------- *)
FragmentAssembler_new(frag_size) ==
  [fragment_size |-> frag_size, assembly_buffers |-> <<>>]

MapInsert(m, k, v) == [x \in DOMAIN m \cup {k} |-> IF x = k THEN v ELSE m[x]]
MapRemove(m, k) == [x \in DOMAIN m \ {k} |-> m[x]]

\* the complete buffer wrapped as data whatever the flags are
assembled_as_data(abuf, flags) ==
  LET rep_id == from_bytes(SubSeq(abuf.buffer_bytes, 1, 2))
      ser_data_or_key ==
        SerializedPayload_new(rep_id, SubSeq(abuf.buffer_bytes, 5, Len(abuf.buffer_bytes)))
  IN IF rep_id = "Err" THEN None ELSE Some(DDSData_new(ser_data_or_key))

\* "Return what we have assembled": the Option<DDSData> made of a buffer that
\* was taken out of the map; .ok()? returns None for an identifier from_bytes
\* does not know
assembled(abuf, flags) ==
  LET rep_id == from_bytes(SubSeq(abuf.buffer_bytes, 1, 2))
      ser_data_or_key ==
        SerializedPayload_new(rep_id, SubSeq(abuf.buffer_bytes, 5, Len(abuf.buffer_bytes)))
      ddsdata == IF "Key" \in flags
                   THEN DDSData_new_disposed_by_key("NotAliveDisposed", ser_data_or_key)
                   ELSE DDSData_new(ser_data_or_key)
  IN IF rep_id = "Err" THEN None ELSE Some(ddsdata)

\* the buffer is parsed first and taken out of the map only if that succeeds
take_completed_if_parsed(bufs, writer_sn, flags) ==
  LET ret == assembled(bufs[writer_sn], flags)
  IN [ret |-> ret,
      assembly_buffers |-> IF ret.some THEN MapRemove(bufs, writer_sn) ELSE bufs]

\* the complete buffer is taken out of the map, then parsed and returned
take_completed(bufs, writer_sn, flags) ==
  [ret |-> assembled(bufs[writer_sn], flags),
   assembly_buffers |-> MapRemove(bufs, writer_sn)]

\* The result: the map as the call leaves it, whether it panicked, and the
\* returned Option<DDSData>.  A complete buffer of fewer than 4 bytes is out
\* of the map when the slices [0..2] or [4..] panic.
new_datafrag(bufs, frag_size, datafrag, flags, t) ==
  LET writer_sn == datafrag.writer_sn
      entry == IF writer_sn \in DOMAIN bufs
                 THEN bufs[writer_sn]
                 ELSE AssemblyBuffer_new(datafrag.data_size, frag_size, t)
      ins == insert_frags(entry, datafrag, frag_size, t)
      abuf == ins.abuf
      with_abuf == MapInsert(bufs, writer_sn, abuf)
  IN IF ins.panicked
       THEN [panicked |-> TRUE, ret |-> None, assembly_buffers |-> with_abuf]
     ELSE IF is_complete(abuf)
       THEN IF Len(abuf.buffer_bytes) < 4
              THEN [panicked |-> TRUE, ret |-> None,
                    assembly_buffers |-> MapRemove(with_abuf, writer_sn)]
            ELSE
              LET taken == take_completed(with_abuf, writer_sn, flags)
              IN [panicked |-> FALSE, ret |-> taken.ret,
                  assembly_buffers |-> taken.assembly_buffers]
     ELSE [panicked |-> FALSE, ret |-> None, assembly_buffers |-> with_abuf]

(* ------------------------------ actions ------------------------------- *)
Samples == [data_size : DataSizes, rep_id : RepIds]

NoCall == [kind |-> "none", op |-> "none"]

FAInit ==
  /\ fragment_size \in FragSizes
  /\ assembly_buffers = FragmentAssembler_new(fragment_size).assembly_buffers
  /\ now = 0
  /\ fa_panicked = FALSE
  /\ fa_call = NoCall
  /\ sent \in Samples
  /\ delivered = [sn \in SNs |-> {}]
  /\ changes = <<>> /\ hc_panicked = FALSE /\ hc_call = NoCall /\ hc_log = <<>>
  /\ topic_caches = <<>> /\ cache_call = NoCall /\ cache_panicked = FALSE
  /\ pc = [t \in 1..NumThreads |-> "idle"] /\ poisoned = FALSE
  /\ added = [name \in {"A", "B"} |-> [n |-> 0, writers |-> {}, out_of_order |-> FALSE]]

\* the writer serializes with an encoding from_bytes does not know
FAInitUnknownId ==
  /\ fragment_size \in FragSizes
  /\ assembly_buffers = FragmentAssembler_new(fragment_size).assembly_buffers
  /\ now = 0
  /\ fa_panicked = FALSE
  /\ fa_call = NoCall
  /\ sent \in [data_size : DataSizes, rep_id : UnknownRepIds]
  /\ delivered = [sn \in SNs |-> {}]
  /\ changes = <<>> /\ hc_panicked = FALSE /\ hc_call = NoCall /\ hc_log = <<>>
  /\ topic_caches = <<>> /\ cache_call = NoCall /\ cache_panicked = FALSE
  /\ pc = [t \in 1..NumThreads |-> "idle"] /\ poisoned = FALSE
  /\ added = [name \in {"A", "B"} |-> [n |-> 0, writers |-> {}, out_of_order |-> FALSE]]

SentCount == FragmentCount(sent.data_size, fragment_size)

\* one call of new_datafrag(datafrag, flags); `kind` and `frags` describe the
\* caller's input: which fragment numbers of the sample an honest DATA_FRAG carries
Call(kind, datafrag, flags, frags) ==
  LET r == new_datafrag(assembly_buffers, fragment_size, datafrag, flags, now)
      sn == datafrag.writer_sn
      got == delivered[sn] \cup frags
  IN /\ ~fa_panicked
     /\ assembly_buffers' = r.assembly_buffers
     /\ fa_panicked' = r.panicked
     /\ fa_call' = [kind |-> kind, datafrag |-> datafrag, flags |-> flags,
                    ret |-> r.ret, panicked |-> r.panicked,
                    missing |-> (1..SentCount) \ got]
     /\ delivered' = [delivered EXCEPT ![sn] =
                        IF sn \in DOMAIN r.assembly_buffers THEN got ELSE {}]
     /\ UNCHANGED <<fragment_size, now, sent>>
     /\ UNCHANGED <<hc_vars, cache_vars>>

\* a DATA_FRAG carrying exactly fragment k of sample sn
RecvFragment ==
  \E sn \in SNs, flags \in FlagSets :
    \E k \in 1..SentCount :
      Call("single", HonestFrag(sn, k, 1), flags, {k})

\* a DATA_FRAG carrying the n >= 2 consecutive fragments k .. k+n-1 of sample sn
RecvBatch ==
  \E sn \in SNs, flags \in FlagSets :
    \E k \in 1..SentCount :
      \E n \in 2..(SentCount - k + 1) :
        Call("batch", HonestFrag(sn, k, n), flags, k..(k + n - 1))

Tick ==
  /\ ~fa_panicked
  /\ now < MaxClock
  /\ now' = now + 1
  /\ UNCHANGED <<fragment_size, assembly_buffers, fa_panicked, fa_call, sent, delivered>>
  /\ UNCHANGED <<hc_vars, cache_vars>>

\* a DATA_FRAG the edge policies of insert_frags call an error: a starting
\* number of 0 or beyond fragment_count, or a fragment run reaching past the
\* last fragment (hence past data_size)
IsMalformed(fragment_starting_num, frags_in_subm, fragment_count) ==
  \/ fragment_starting_num = 0
  \/ fragment_starting_num > fragment_count
  \/ fragment_starting_num + frags_in_subm - 1 > fragment_count

MalformedFrag(sn, k, n, vlen) ==
  [writer_sn |-> sn,
   data_size |-> sent.data_size,
   fragment_starting_num |-> k,
   fragments_in_submessage |-> n,
   serialized_payload |->
     [representation_identifier |-> sent.rep_id,
      representation_options |-> <<0, 0>>,
      value |-> [i \in 1..vlen |-> 9]]]

\* starting number, fragment count and payload length of the malformed
\* DATA_FRAGs tried on a sample of c fragments whose last one has `last` bytes
MalformedInputs(c, F, last) ==
  {<<0, 0, 0>>, <<0, 1, F>>,
   <<c + 1, 0, 0>>, <<c + 1, 1, 0>>, <<c + 1, 1, F>>,
   <<c, 2, last>>, <<1, c + 1, F>>}

RecvMalformed ==
  \E sn \in SNs :
    \E in \in MalformedInputs(SentCount, fragment_size,
                             sent.data_size - (SentCount - 1) * fragment_size) :
      /\ IsMalformed(in[1], in[2], SentCount)
      /\ Call("malformed", MalformedFrag(sn, in[1], in[2], in[3]), {}, {})

FANext == RecvFragment \/ RecvBatch \/ RecvMalformed \/ Tick

\* the DATA_FRAG of the last fragment of sample sn, arriving with a payload
\* one byte shorter than that fragment
RecvTruncated ==
  \E sn \in SNs :
    LET whole == HonestFrag(sn, SentCount, 1)
        value == whole.serialized_payload.value
    IN Call("truncated",
            [whole EXCEPT !.serialized_payload.value = SubSeq(value, 1, Len(value) - 1)],
            {}, {})

FATruncatedNext == FANext \/ RecvTruncated

(* ============================ dds_cache.rs ============================ *)
Instants == 1..MaxInstant
\* the instants used on the two topics of a DDSCache with a single owner
TopicInstants == 1..MaxTopicInstant
Topics == {"A", "B"}
SharedTopics == {"A"}
TopicArgs == {<<"NO_KEY", "T1">>, <<"WITH_KEY", "T2">>}
QosValues == {"qos_none", "qos_1"}
Threads == 1..NumThreads

\* CacheChange: the writer's GUID and the writer's sequence number; the
\* history cache on its own is fed two changes, a DDSCache one
CacheChange(writer_guid, sequence_number) ==
  [writer_guid |-> writer_guid, sequence_number |-> sequence_number]
CacheChanges == {CacheChange("GUID_UNKNOWN", 1), CacheChange("GUID_UNKNOWN", 2)}
TopicChanges == {CacheChange("GUID_UNKNOWN", 1)}

(* ------ std BTreeMap<Instant, CacheChange>: entries kept in key order ------ *)
BTreeMap_new == <<>>

BTreeMap_keys(m) == {m[i][1] : i \in 1..Len(m)}

BTreeMap_get(m, k) ==
  IF k \in BTreeMap_keys(m)
    THEN Some(m[CHOOSE i \in 1..Len(m) : m[i][1] = k][2])
    ELSE None

\* insert: the new map and the value the key had before
BTreeMap_insert(m, k, v) ==
  IF k \in BTreeMap_keys(m)
    THEN [map |-> [i \in 1..Len(m) |-> IF m[i][1] = k THEN <<k, v>> ELSE m[i]],
          old |-> BTreeMap_get(m, k)]
    ELSE LET below == Cardinality({i \in 1..Len(m) : m[i][1] < k})
         IN [map |-> SubSeq(m, 1, below) \o <<<<k, v>>>> \o SubSeq(m, below + 1, Len(m)),
             old |-> None]

BTreeMap_remove(m, k) ==
  [map |-> SelectSeq(m, LAMBDA e : e[1] # k), old |-> BTreeMap_get(m, k)]

\* range((Included(lo), Included(hi))) panics when lo > hi.  On a map without
\* entries the outcome depends on the build: a std that keeps no root node for
\* an empty map returns the empty range without looking at the bounds, any
\* other makes the test; `root_checked` says which.
BTreeMap_range(m, lo, hi, root_checked) ==
  [panicked |-> lo > hi /\ (m # <<>> \/ root_checked),
   iter |-> SelectSeq(m, LAMBDA e : lo <= e[1] /\ e[1] <= hi)]

\* the values of root_checked that can make a difference to a range call
RootChecked(lo, hi) == IF lo > hi THEN BOOLEAN ELSE {TRUE}

(* --------------------------- DDSHistoryCache -------------------------- *)
DDSHistoryCache_new == [changes |-> BTreeMap_new]

\* add_change that takes a second insert at an instant as a replacement
add_change_replacing(hc, instant, cache_change) ==
  LET result == BTreeMap_insert(hc.changes, instant, cache_change)
  IN [panicked |-> FALSE, hc |-> [changes |-> result.map]]

\* the insert is done before the result is looked at: a panicking call
\* leaves the new change in the map
add_change(hc, instant, cache_change) ==
  LET result == BTreeMap_insert(hc.changes, instant, cache_change)
  IN [panicked |-> result.old.some, hc |-> [changes |-> result.map]]

get_change(hc, instant) == BTreeMap_get(hc.changes, instant)

\* the range taken with Excluded(end_instant)
get_range_of_changes_vec_excluded(hc, start_instant, end_instant, root_checked) ==
  [panicked |-> start_instant > end_instant /\ (hc.changes # <<>> \/ root_checked),
   ret |-> SelectSeq(hc.changes, LAMBDA e : start_instant <= e[1] /\ e[1] < end_instant)]

get_range_of_changes_vec(hc, start_instant, end_instant, root_checked) ==
  LET r == BTreeMap_range(hc.changes, start_instant, end_instant, root_checked)
  IN [panicked |-> r.panicked, ret |-> IF r.panicked THEN <<>> ELSE r.iter]

\* remove_change that hands out the value and keeps the entry
remove_change_keeping(hc, instant) ==
  [hc |-> hc, ret |-> BTreeMap_get(hc.changes, instant)]

remove_change(hc, instant) ==
  LET r == BTreeMap_remove(hc.changes, instant)
  IN [hc |-> [changes |-> r.map], ret |-> r.old]

(* ------------------------------ TopicCache ---------------------------- *)
TopicCache_new(topic_kind, topic_data_type_name) ==
  [topic_data_type_name |-> topic_data_type_name,
   topic_kind |-> topic_kind,
   topic_qos |-> "qos_none",
   history_cache |-> DDSHistoryCache_new]

TopicCache_get_change(tc, instant) == get_change(tc.history_cache, instant)

TopicCache_add_change(tc, instant, cache_change) ==
  LET r == add_change(tc.history_cache, instant, cache_change)
  IN [panicked |-> r.panicked, tc |-> [tc EXCEPT !.history_cache = r.hc]]

TopicCache_get_changes_in_range(tc, start_instant, end_instant, root_checked) ==
  get_range_of_changes_vec(tc.history_cache, start_instant, end_instant, root_checked)

(* ------------------------------- DDSCache ----------------------------- *)
DDSCache_new == [topic_caches |-> <<>>]

\* add_new_topic without the contains_key test: HashMap::insert replaces
add_new_topic_replacing(caches, topic_name, topic_kind, topic_data_type_name) ==
  [ret |-> topic_name \notin DOMAIN caches,
   topic_caches |->
     MapInsert(caches, topic_name, TopicCache_new(topic_kind, topic_data_type_name))]

add_new_topic(caches, topic_name, topic_kind, topic_data_type_name) ==
  IF topic_name \in DOMAIN caches
    THEN [ret |-> FALSE, topic_caches |-> caches]
    ELSE [ret |-> TRUE,
          topic_caches |->
            MapInsert(caches, topic_name, TopicCache_new(topic_kind, topic_data_type_name))]

\* remove_topic that empties the whole map (HashMap::clear)
remove_topic_clearing(caches, topic_name) ==
  IF topic_name \in DOMAIN caches THEN <<>> ELSE caches

remove_topic(caches, topic_name) ==
  IF topic_name \in DOMAIN caches THEN MapRemove(caches, topic_name) ELSE caches

\* Option<&mut QosPolicies>: the caller assigns through the reference
get_topic_qos_mut(caches, topic_name, qos) ==
  IF topic_name \in DOMAIN caches
    THEN [ret |-> Some(caches[topic_name].topic_qos),
          topic_caches |-> [caches EXCEPT ![topic_name].topic_qos = qos]]
    ELSE [ret |-> None, topic_caches |-> caches]

get_topic_qos(caches, topic_name) ==
  IF topic_name \in DOMAIN caches THEN Some(caches[topic_name].topic_qos) ELSE None

from_topic_get_change(caches, topic_name, instant) ==
  IF topic_name \in DOMAIN caches
    THEN TopicCache_get_change(caches[topic_name], instant)
    ELSE None

from_topic_get_changes_in_range(caches, topic_name, start_instant, end_instant, root_checked) ==
  IF topic_name \in DOMAIN caches
    THEN TopicCache_get_changes_in_range(caches[topic_name], start_instant, end_instant,
                                         root_checked)
    ELSE [panicked |-> FALSE, ret |-> <<>>]

\* to_topic_add_change that registers a topic it does not know
to_topic_add_change_creating(caches, topic_name, instant, cache_change) ==
  LET known == IF topic_name \in DOMAIN caches
                 THEN caches
                 ELSE MapInsert(caches, topic_name, TopicCache_new("NO_KEY", "T1"))
      r == TopicCache_add_change(known[topic_name], instant, cache_change)
  IN [panicked |-> r.panicked,
      topic_caches |-> [known EXCEPT ![topic_name] = r.tc]]

to_topic_add_change(caches, topic_name, instant, cache_change) ==
  IF topic_name \in DOMAIN caches
    THEN LET r == TopicCache_add_change(caches[topic_name], instant, cache_change)
         IN [panicked |-> r.panicked,
             topic_caches |-> [caches EXCEPT ![topic_name] = r.tc]]
    ELSE [panicked |-> FALSE, topic_caches |-> caches]

(* ------------- actions: a DDSHistoryCache used on its own ------------- *)
\* the parts a specification does not exercise stay as constructed
HCInit ==
  /\ changes = DDSHistoryCache_new.changes
  /\ hc_panicked = FALSE
  /\ hc_call = NoCall
  /\ hc_log = <<>>
  /\ fragment_size = 5 /\ assembly_buffers = <<>> /\ now = 0 /\ fa_panicked = FALSE
  /\ fa_call = NoCall /\ sent = [data_size |-> 0, rep_id |-> "CDR_BE"] /\ delivered = <<>>
  /\ topic_caches = <<>> /\ cache_call = NoCall /\ cache_panicked = FALSE
  /\ pc = [t \in Threads |-> "idle"] /\ poisoned = FALSE
  /\ added = [name \in Topics |-> [n |-> 0, writers |-> {}, out_of_order |-> FALSE]]

HCAddChange ==
  \E instant \in Instants, cache_change \in CacheChanges :
    LET r == add_change([changes |-> changes], instant, cache_change)
    IN /\ ~hc_panicked
       /\ Len(hc_log) < MaxLog
       /\ changes' = r.hc.changes
       /\ hc_panicked' = r.panicked
       /\ hc_call' = [op |-> "add_change", instant |-> instant, change |-> cache_change,
                      present |-> instant \in BTreeMap_keys(changes), panicked |-> r.panicked]
       /\ hc_log' = Append(hc_log, [op |-> "add_change", instant |-> instant, change |-> cache_change])
       /\ UNCHANGED <<fa_vars, cache_vars>>

HCRemoveChange ==
  \E instant \in Instants :
    LET r == remove_change([changes |-> changes], instant)
    IN /\ ~hc_panicked
       /\ Len(hc_log) < MaxLog
       /\ changes' = r.hc.changes
       /\ hc_call' = [op |-> "remove_change", instant |-> instant, ret |-> r.ret, panicked |-> FALSE]
       /\ hc_log' = Append(hc_log, [op |-> "remove_change", instant |-> instant])
       /\ UNCHANGED <<hc_panicked, fa_vars, cache_vars>>

HCGetChange ==
  \E instant \in Instants :
    /\ ~hc_panicked
    /\ hc_call' = [op |-> "get_change", instant |-> instant,
                   ret |-> get_change([changes |-> changes], instant), panicked |-> FALSE]
    /\ UNCHANGED <<changes, hc_panicked, hc_log, fa_vars, cache_vars>>

HCGetRange ==
  \E start_instant \in Instants, end_instant \in Instants :
   \E root_checked \in RootChecked(start_instant, end_instant) :
    LET r == get_range_of_changes_vec([changes |-> changes], start_instant, end_instant,
                                      root_checked)
    IN /\ ~hc_panicked
       /\ hc_panicked' = r.panicked
       /\ hc_call' = [op |-> "get_range_of_changes_vec", start |-> start_instant,
                      end |-> end_instant, ret |-> r.ret, panicked |-> r.panicked]
       /\ UNCHANGED <<changes, hc_log, fa_vars, cache_vars>>

HCNext == HCAddChange \/ HCRemoveChange \/ HCGetChange \/ HCGetRange

(* -------------------- the calls on a DDSCache ------------------------- *)
NoneAdded == [n |-> 0, writers |-> {}, out_of_order |-> FALSE]

\* Each gives the outcome of one call by thread t in the current state: the
\* map it leaves, whether it panicked, and the record of the call (with the
\* calling thread for the calls that take &mut self).
AddNewTopicCall(t, name, kind, type_name) ==
  LET r == add_new_topic(topic_caches, name, kind, type_name)
  IN [panicked |-> FALSE, topic_caches |-> r.topic_caches,
      added |-> IF r.ret THEN [added EXCEPT ![name] = NoneAdded] ELSE added,
      call |-> [op |-> "add_new_topic", thread |-> t, topic |-> name, kind |-> kind,
                type_name |-> type_name, ret |-> r.ret, panicked |-> FALSE]]

RemoveTopicCall(t, name) ==
  [panicked |-> FALSE, topic_caches |-> remove_topic(topic_caches, name),
   added |-> [added EXCEPT ![name] = NoneAdded],
   call |-> [op |-> "remove_topic", thread |-> t, topic |-> name,
             present |-> name \in DOMAIN topic_caches,
             dropped |-> IF name \in DOMAIN topic_caches
                           THEN Len(topic_caches[name].history_cache.changes) ELSE 0,
             panicked |-> FALSE]]

GetTopicQosMutCall(t, name, qos) ==
  LET r == get_topic_qos_mut(topic_caches, name, qos)
  IN [panicked |-> FALSE, topic_caches |-> r.topic_caches, added |-> added,
      call |-> [op |-> "get_topic_qos_mut", thread |-> t, topic |-> name, qos |-> qos,
                ret |-> r.ret, panicked |-> FALSE]]

GetTopicQosCall(t, name) ==
  [panicked |-> FALSE, topic_caches |-> topic_caches, added |-> added,
   call |-> [op |-> "get_topic_qos", topic |-> name,
             ret |-> get_topic_qos(topic_caches, name), panicked |-> FALSE]]

FromTopicGetChangeCall(t, name, instant) ==
  [panicked |-> FALSE, topic_caches |-> topic_caches, added |-> added,
   call |-> [op |-> "from_topic_get_change", topic |-> name, instant |-> instant,
             ret |-> from_topic_get_change(topic_caches, name, instant), panicked |-> FALSE]]

FromTopicGetChangesInRangeCall(t, name, start_instant, end_instant, root_checked) ==
  LET r == from_topic_get_changes_in_range(topic_caches, name, start_instant, end_instant,
                                           root_checked)
  IN [panicked |-> r.panicked, topic_caches |-> topic_caches, added |-> added,
      call |-> [op |-> "from_topic_get_changes_in_range", topic |-> name,
                start |-> start_instant, end |-> end_instant,
                ret |-> r.ret, panicked |-> r.panicked]]

ToTopicAddChangeCall(t, name, instant, cache_change) ==
  LET r == to_topic_add_change(topic_caches, name, instant, cache_change)
      known == name \in DOMAIN topic_caches
  IN [panicked |-> r.panicked, topic_caches |-> r.topic_caches,
      added |-> IF known /\ ~r.panicked
                 THEN [added EXCEPT ![name] =
                         [n |-> @.n + 1,
                          writers |-> @.writers \cup {t},
                          out_of_order |-> @.out_of_order \/
                             \E u \in BTreeMap_keys(topic_caches[name].history_cache.changes) :
                               instant < u]]
                 ELSE added,
      call |-> [op |-> "to_topic_add_change", thread |-> t, topic |-> name, instant |-> instant,
                change |-> cache_change,
                replaced |-> from_topic_get_change(topic_caches, name, instant),
                panicked |-> r.panicked]]

(* --------------- actions: a DDSCache with a single owner -------------- *)
CacheInit ==
  /\ topic_caches = DDSCache_new.topic_caches
  /\ cache_call = NoCall
  /\ cache_panicked = FALSE
  /\ pc = [t \in Threads |-> "idle"]
  /\ poisoned = FALSE
  /\ added = [name \in Topics |-> NoneAdded]
  /\ fragment_size = 5 /\ assembly_buffers = <<>> /\ now = 0 /\ fa_panicked = FALSE
  /\ fa_call = NoCall /\ sent = [data_size |-> 0, rep_id |-> "CDR_BE"] /\ delivered = <<>>
  /\ changes = <<>> /\ hc_panicked = FALSE /\ hc_call = NoCall /\ hc_log = <<>>

OwnerCall(r) ==
  /\ ~cache_panicked
  /\ topic_caches' = r.topic_caches
  /\ cache_call' = r.call
  /\ cache_panicked' = r.panicked
  /\ UNCHANGED <<pc, poisoned, added, fa_vars, hc_vars>>

AddNewTopic ==
  \E name \in Topics, args \in TopicArgs : OwnerCall(AddNewTopicCall(0, name, args[1], args[2]))

RemoveTopic ==
  \E name \in Topics : OwnerCall(RemoveTopicCall(0, name))

GetTopicQosMut ==
  \E name \in Topics, qos \in QosValues : OwnerCall(GetTopicQosMutCall(0, name, qos))

GetTopicQos ==
  \E name \in Topics : OwnerCall(GetTopicQosCall(0, name))

FromTopicGetChange ==
  \E name \in Topics, instant \in TopicInstants :
    OwnerCall(FromTopicGetChangeCall(0, name, instant))

FromTopicGetChangesInRange ==
  \E name \in Topics, start_instant \in TopicInstants, end_instant \in TopicInstants :
    \E root_checked \in RootChecked(start_instant, end_instant) :
      OwnerCall(FromTopicGetChangesInRangeCall(0, name, start_instant, end_instant,
                                               root_checked))

ToTopicAddChange ==
  \E name \in Topics, instant \in TopicInstants, cache_change \in TopicChanges :
    OwnerCall(ToTopicAddChangeCall(0, name, instant, cache_change))

CacheNext ==
  \/ AddNewTopic \/ RemoveTopic \/ GetTopicQosMut \/ GetTopicQos
  \/ FromTopicGetChange \/ FromTopicGetChangesInRange \/ ToTopicAddChange

(* ------- actions: threads sharing an Arc<RwLock<DDSCache>> ------------ *)
\* a write() that only waits for writers, as read() does
RwLock_write_shared(t) == \A u \in Threads : pc[u] # "write"

\* cache.write(): no other guard is held
RwLock_write(t) == \A u \in Threads : pc[u] \notin {"read", "write"}

\* cache.read(): no write guard is held
RwLock_read(t) == \A u \in Threads : pc[u] # "write"

LockWrite(t) ==
  /\ pc[t] = "idle"
  /\ ~poisoned
  /\ RwLock_write(t)
  /\ pc' = [pc EXCEPT ![t] = "write"]
  /\ UNCHANGED <<topic_caches, cache_call, cache_panicked, poisoned, added, fa_vars, hc_vars>>

LockRead(t) ==
  /\ pc[t] = "idle"
  /\ ~poisoned
  /\ RwLock_read(t)
  /\ pc' = [pc EXCEPT ![t] = "read"]
  /\ UNCHANGED <<topic_caches, cache_call, cache_panicked, poisoned, added, fa_vars, hc_vars>>

\* .unwrap() of the PoisonError a poisoned lock hands out
LockPoisoned(t) ==
  /\ pc[t] = "idle"
  /\ poisoned
  /\ pc' = [pc EXCEPT ![t] = "panicked"]
  /\ UNCHANGED <<topic_caches, cache_call, cache_panicked, poisoned, added, fa_vars, hc_vars>>

\* the call made through the guard; the guard is dropped when it returns, and
\* a panic under a write guard poisons the lock
GuardedCall(t, mode, r) ==
  /\ pc[t] = mode
  /\ topic_caches' = r.topic_caches
  /\ cache_call' = r.call
  /\ added' = r.added
  /\ pc' = [pc EXCEPT ![t] = IF r.panicked THEN "panicked" ELSE "idle"]
  /\ poisoned' = (poisoned \/ (r.panicked /\ mode = "write"))
  /\ UNCHANGED <<cache_panicked, fa_vars, hc_vars>>

SharedAddNewTopic(t) ==
  \E name \in SharedTopics, args \in TopicArgs :
    GuardedCall(t, "write", AddNewTopicCall(t, name, args[1], args[2]))

SharedToTopicAddChange(t) ==
  \E name \in SharedTopics, instant \in Instants, cache_change \in TopicChanges :
    GuardedCall(t, "write", ToTopicAddChangeCall(t, name, instant, cache_change))

SharedFromTopicGetChange(t) ==
  \E name \in SharedTopics, instant \in Instants :
    GuardedCall(t, "read", FromTopicGetChangeCall(t, name, instant))

SharedFromTopicGetChangesInRange(t) ==
  \E name \in SharedTopics, start_instant \in Instants, end_instant \in Instants :
    \E root_checked \in RootChecked(start_instant, end_instant) :
      GuardedCall(t, "read",
        FromTopicGetChangesInRangeCall(t, name, start_instant, end_instant, root_checked))

SharedNext ==
  \E t \in Threads :
    \/ LockWrite(t) \/ LockRead(t) \/ LockPoisoned(t)
    \/ SharedAddNewTopic(t) \/ SharedToTopicAddChange(t)
    \/ SharedFromTopicGetChange(t) \/ SharedFromTopicGetChangesInRange(t)

(* --------------------------- specifications --------------------------- *)
SpecFA == FAInit /\ [][FANext]_vars

SpecFAUnknownId == FAInitUnknownId /\ [][FANext]_vars

SpecFATruncated == FAInit /\ [][FATruncatedNext]_vars

\* time passes, whatever the writer does
SpecFAStale == FAInit /\ [][FANext]_vars /\ WF_vars(Tick)

SpecHC == HCInit /\ [][HCNext]_vars

SpecCache == CacheInit /\ [][CacheNext]_vars

SpecShared == CacheInit /\ [][SharedNext]_vars

(* ==================== properties: fragment assembly =================== *)

\* the payload the writer of the last call's sample serialized, as the
\* assembler should hand it on: its identifier and the bytes after the prefix
SentPayload(sn) ==
  SerializedPayload_new(sent.rep_id,
    SubSeq(Serialized(sn, sent), 5, sent.data_size))

CallSN == fa_call.datafrag.writer_sn

ReturnedSentPayload ==
  /\ fa_call.ret.some
  /\ fa_call.ret.v.payload = SentPayload(CallSN)

\* C1: round trip of reassembly - every honest sample delivered one fragment
\* per DATA_FRAG, in any order, is returned on the call that completes it, with
\* the sender's representation identifier and the sender's bytes after the prefix.
C1_RoundTrip ==
  fa_call.kind = "single" =>
    /\ ~fa_call.panicked
    /\ fa_call.missing = {} => ReturnedSentPayload

\* C2: completion timing - with single-fragment DATA_FRAGs in any order,
\* duplicates allowed, new_datafrag returns none while a fragment is missing
\* and returns the sample on the call that delivers the last missing fragment.
C2_CompletionTiming ==
  fa_call.kind = "single" =>
    /\ ~fa_call.panicked
    /\ fa_call.missing # {} => ~fa_call.ret.some
    /\ fa_call.missing = {} => fa_call.ret.some

\* C3: single-fragment sample - when data_size <= fragment_size, the one
\* DATA_FRAG (fragment 1, 1 fragment) completes on that call and returns the
\* bytes after the prefix.
C3_SingleFragmentSample ==
  (fa_call.kind = "single" /\ sent.data_size <= fragment_size) =>
    /\ ~fa_call.panicked
    /\ ReturnedSentPayload

\* C4: batched submessage - one DATA_FRAG with fragment_starting_num = 1 and
\* fragments_in_submessage = fragment_count completes on that call with the
\* sender's bytes, also when data_size is not a multiple of fragment_size.
C4_BatchedSubmessage ==
  (/\ fa_call.kind = "batch"
   /\ fa_call.datafrag.fragment_starting_num = 1
   /\ fa_call.datafrag.fragments_in_submessage = SentCount) =>
    /\ ~fa_call.panicked
    /\ ReturnedSentPayload

\* C5: malformed fragments are dropped, not fatal - a DATA_FRAG that starts at
\* fragment 0 or beyond fragment_count, or that would write past data_size,
\* makes new_datafrag return none without a panic and leaves bytes and bitmap
\* of every in-progress buffer as they were.
C5_MalformedDropped ==
  [][(now' = now /\ fa_call'.kind = "malformed") =>
       /\ ~fa_panicked'
       /\ ~fa_call'.ret.some
       /\ \A sn \in DOMAIN assembly_buffers :
            /\ sn \in DOMAIN assembly_buffers'
            /\ assembly_buffers'[sn].buffer_bytes = assembly_buffers[sn].buffer_bytes
            /\ assembly_buffers'[sn].received_bitmap = assembly_buffers[sn].received_bitmap]_vars

\* What the code does do: samples of two or more fragments, one fragment per
\* DATA_FRAG, reassemble to the sender's bytes on the completing call.
MultiFragmentRoundTrip ==
  (fa_call.kind = "single" /\ SentCount >= 2) =>
    /\ ~fa_call.panicked
    /\ fa_call.missing # {} => ~fa_call.ret.some
    /\ fa_call.missing = {} => ReturnedSentPayload

\* A batch of whole fragments (none of them a shorter last one) is accepted.
WholeFragmentBatch ==
  (/\ fa_call.kind = "batch"
   /\ sent.data_size % fragment_size = 0) =>
    /\ ~fa_call.panicked
    /\ fa_call.missing = {} <=> fa_call.ret.some
    /\ fa_call.ret.some => ReturnedSentPayload

\* every malformed DATA_FRAG with at least one fragment panics
MalformedPanics ==
  (fa_call.kind = "malformed" /\ fa_call.datafrag.fragments_in_submessage >= 1) =>
    fa_call.panicked

\* C13: the change kind follows the Key flag - a sample returned by
\* new_datafrag is key-only, of kind NotAliveDisposed, with the reassembled
\* bytes as its key exactly when the flags passed with the completing
\* DATA_FRAG contain Key; otherwise it is an Alive data sample with the
\* reassembled bytes.
C13_KindFollowsKeyFlag ==
  (fa_call.kind # "none" /\ fa_call.ret.some) =>
    LET d == fa_call.ret.v
    IN /\ d.payload = SentPayload(CallSN)
       /\ "Key" \in fa_call.flags => (d.kind = "NotAliveDisposed" /\ d.key_only)
       /\ "Key" \notin fa_call.flags => (d.kind = "Alive" /\ ~d.key_only)

C13_Witness ==
  /\ fa_call.kind = "single"
  /\ fa_call.ret.some
  /\ "Key" \in fa_call.flags
  /\ fa_call.ret.v.kind = "NotAliveDisposed"
  /\ fa_call.ret.v.key_only
  /\ Len(fa_call.ret.v.payload.value) >= 5
  /\ CallSN \notin DOMAIN assembly_buffers
\* C14: unrecognized representation identifier on completion - when the last
\* missing fragment arrives and the first 2 bytes of the finished buffer are
\* not an identifier from_bytes knows, new_datafrag returns none and the
\* buffer of that writer_sn is nevertheless out of the map.
C14_UnknownIdDropped ==
  (/\ fa_call.kind \in {"single", "batch"}
   /\ ~fa_call.panicked
   /\ fa_call.missing = {}
   /\ from_bytes(to_bytes(sent.rep_id)) = "Err") =>
    /\ fa_call.ret = None
    /\ CallSN \notin DOMAIN assembly_buffers

C14_Witness ==
  /\ fa_call.kind = "single"
  /\ ~fa_call.panicked
  /\ fa_call.missing = {}
  /\ SentCount >= 2
  /\ from_bytes(to_bytes(sent.rep_id)) = "Err"
  /\ fa_call.ret = None
  /\ assembly_buffers = <<>>
\* ceil(data_size / frag_size): the least c with c * frag_size >= data_size
Ceil(data_size, frag_size) ==
  CHOOSE c \in 0..data_size :
    /\ c * frag_size >= data_size
    /\ \A d \in 0..(c - 1) : d * frag_size < data_size

CountSet(bitmap) == Cardinality({i \in 1..Len(bitmap) : bitmap[i]})

\* C16: bitmap bound and completeness - every AssemblyBuffer, in every
\* reachable state, has a bitmap of length fragment_count =
\* ceil(data_size / fragment_size) with at most fragment_count bits set, and
\* is_complete() holds exactly when all fragment_count bits are set; no
\* complete buffer is in the map after new_datafrag has returned.
C16_BitmapBound ==
  \A sn \in DOMAIN assembly_buffers :
    LET abuf == assembly_buffers[sn]
    IN /\ abuf.fragment_count = Ceil(Len(abuf.buffer_bytes), fragment_size)
       /\ Len(abuf.received_bitmap) = abuf.fragment_count
       /\ CountSet(abuf.received_bitmap) <= abuf.fragment_count
       /\ is_complete(abuf) <=> CountSet(abuf.received_bitmap) = abuf.fragment_count
       /\ ~fa_panicked => ~is_complete(abuf)

C16_Witness ==
  /\ fa_call.kind = "single"
  /\ ~fa_panicked
  /\ fa_call.ret = None
  /\ \E sn \in DOMAIN assembly_buffers :
       /\ assembly_buffers[sn].fragment_count = 3
       /\ Len(assembly_buffers[sn].buffer_bytes) % fragment_size # 0
       /\ CountSet(assembly_buffers[sn].received_bitmap) = 2
\* The whole byte range of fragment i has been written into the buffer.  The
\* buffer starts as zeros and no payload byte of a DATA_FRAG of the model is
\* zero; the 4 header bytes, which may be zero, are left out.
Written(abuf, frag_size, i) ==
  \A b \in ((i - 1) * frag_size + 1)..Min(i * frag_size, Len(abuf.buffer_bytes)) :
    b > 4 => abuf.buffer_bytes[b] # 0

\* C17: the bitmap matches the written fragments - in every state an accepted
\* insert_frags leaves, bit i of received_bitmap is true exactly when the
\* whole byte range of fragment i+1 has been written into the buffer.
C17_BitmapMatchesWritten ==
  ~fa_panicked =>
    \A sn \in DOMAIN assembly_buffers :
      LET abuf == assembly_buffers[sn]
      IN \A i \in 1..Len(abuf.received_bitmap) :
           abuf.received_bitmap[i] <=> Written(abuf, fragment_size, i)

\* the second half of C17: an accepted insert_frags with first fragment s+1
\* and n fragments makes bits s..s+n-1 true and changes no other bit
BitsOfCallSet ==
  [][(now' = now /\ ~fa_panicked') =>
       LET datafrag == fa_call'.datafrag
           sn == datafrag.writer_sn
           s == datafrag.fragment_starting_num - 1
           n == datafrag.fragments_in_submessage
       IN sn \in DOMAIN assembly_buffers' =>
            \A i \in 1..Len(assembly_buffers'[sn].received_bitmap) :
              assembly_buffers'[sn].received_bitmap[i] =
                IF s < i /\ i <= s + n THEN TRUE
                ELSE IF sn \in DOMAIN assembly_buffers
                  THEN assembly_buffers[sn].received_bitmap[i]
                  ELSE FALSE]_vars
\* C18: stale buffers are evicted - an AssemblyBuffer whose sample never
\* completes does not stay in the map forever: as time passes, every buffer
\* that is in the map of a running assembler leaves it again.
C18_StaleEvicted ==
  \A sn \in SNs :
    (sn \in DOMAIN assembly_buffers /\ ~fa_panicked)
      ~> (sn \notin DOMAIN assembly_buffers \/ fa_panicked)

\* the only way out of the map is the completing call: a step that takes a
\* buffer out returns its sample, and modified_time decides nothing
LeavesOnlyCompleted ==
  [][\A sn \in DOMAIN assembly_buffers :
       (sn \notin DOMAIN assembly_buffers' /\ ~fa_panicked') =>
         (fa_call'.datafrag.writer_sn = sn /\ fa_call'.missing = {})]_vars
\* C19: at-most-once emission per sequence number - once new_datafrag has
\* returned the sample of a writer_sn, a further DATA_FRAG of that writer_sn
\* (a late duplicate) neither returns a sample again nor leaves a new
\* in-progress buffer for that writer_sn in the map.
C19_AtMostOnce ==
  [][(/\ fa_call.kind \in {"single", "batch"}
      /\ fa_call.ret.some
      /\ now' = now
      /\ fa_call'.kind \in {"single", "batch"}
      /\ fa_call'.datafrag.writer_sn = fa_call.datafrag.writer_sn) =>
       /\ ~fa_call'.ret.some
       /\ fa_call.datafrag.writer_sn \notin DOMAIN assembly_buffers']_vars

(* ====================== properties: sample cache ====================== *)

\* C6: a duplicate instant is fatal - to_topic_add_change (hence
\* DDSHistoryCache::add_change) with an instant that is already a key of the
\* topic's history does not return: the calling thread panics, whichever
\* thread made the earlier insert.
C6_DuplicateInstantFatal ==
  (cache_call.op = "to_topic_add_change" /\ cache_call.replaced.some) =>
    /\ cache_call.panicked
    /\ pc[cache_call.thread] = "panicked"

C6_Witness ==
  /\ cache_call.op = "to_topic_add_change"
  /\ cache_call.replaced.some
  /\ added[cache_call.topic].writers # {}
  /\ cache_call.thread \notin added[cache_call.topic].writers
  /\ cache_call.panicked

\* the last call of the log that names instant t, 0 if there is none
LastOn(log, t) ==
  LET on == {i \in 1..Len(log) : log[i].instant = t}
  IN IF on = {} THEN 0 ELSE CHOOSE i \in on : \A j \in on : j <= i

\* what the calls made so far leave at instant t
Expected(log, t) ==
  LET i == LastOn(log, t)
  IN IF i # 0 /\ log[i].op = "add_change" THEN Some(log[i].change) ELSE None

\* C7: the point lookup reflects the history - after any sequence of
\* add_change and remove_change, get_change(t) is Some(c) exactly when an
\* add_change(t, c) was made with no remove_change(t) after it, c being the
\* change of that insert.
C7_PointLookup ==
  /\ hc_call.op = "get_change" => hc_call.ret = Expected(hc_log, hc_call.instant)
  /\ ~hc_panicked =>
       \A t \in Instants : get_change([changes |-> changes], t) = Expected(hc_log, t)

C7_Witness ==
  /\ hc_call.op = "get_change"
  /\ hc_call.ret.some
  /\ \E i \in 1..Len(hc_log), j \in 1..Len(hc_log) :
       /\ i < j
       /\ hc_log[i].op = "remove_change" /\ hc_log[i].instant = hc_call.instant
       /\ hc_log[j].op = "add_change" /\ hc_log[j].instant = hc_call.instant
       /\ hc_log[j].change = hc_call.ret.v

\* the entries of a topic's history, by point lookup
Stored(name, start_instant, end_instant) ==
  {<<t, from_topic_get_change(topic_caches, name, t).v>> :
     t \in {u \in start_instant..end_instant :
              from_topic_get_change(topic_caches, name, u).some}}

\* C8: the range query is inclusive and ordered - for start <= end it returns
\* exactly the stored entries with start <= t <= end, each once, in strictly
\* ascending order of instant, whatever the order of the inserts.
C8_RangeInclusiveOrdered ==
  (/\ cache_call.op = "from_topic_get_changes_in_range"
   /\ cache_call.start <= cache_call.end) =>
    LET ret == cache_call.ret
    IN /\ ~cache_call.panicked
       /\ \A i \in 1..Len(ret), j \in 1..Len(ret) : i < j => ret[i][1] < ret[j][1]
       /\ {ret[i] : i \in 1..Len(ret)} = Stored(cache_call.topic, cache_call.start, cache_call.end)

C8_Witness ==
  /\ cache_call.op = "from_topic_get_changes_in_range"
  /\ cache_call.start = 2 /\ cache_call.end = 2
  /\ Len(cache_call.ret) = 1
  /\ cache_call.ret[1][1] = 2
  /\ added[cache_call.topic].n = 3
  /\ added[cache_call.topic].out_of_order

\* C9: no insert is lost under concurrency - write guards exclude every
\* other guard, every add_change that returned is stored, and a range query
\* over all instants returns as many entries as inserts were made.
C9_NoLostInserts ==
  /\ \A t \in Threads, u \in Threads :
       (t # u /\ pc[t] = "write") => pc[u] \notin {"read", "write"}
  /\ \A name \in DOMAIN topic_caches :
       /\ Cardinality({t \in Instants : from_topic_get_change(topic_caches, name, t).some})
            = added[name].n
       /\ Len(from_topic_get_changes_in_range(topic_caches, name, 1, MaxInstant, TRUE).ret)
            = added[name].n
  /\ (/\ cache_call.op = "from_topic_get_changes_in_range"
      /\ cache_call.start = 1 /\ cache_call.end = MaxInstant) =>
       Len(cache_call.ret) = added[cache_call.topic].n

C9_Witness ==
  /\ cache_call.op = "from_topic_get_changes_in_range"
  /\ cache_call.start = 1 /\ cache_call.end = MaxInstant
  /\ Len(cache_call.ret) = MaxInstant
  /\ Cardinality(added[cache_call.topic].writers) >= 2

\* C10: add_new_topic on an existing name is a no-op that returns false and
\* leaves the topic (kind, type name, QoS, changes) as it was; on a new name
\* it returns true and creates the topic with an empty history and the
\* default QoS.
C10_AddNewTopic ==
  [][cache_call'.op = "add_new_topic" =>
       LET name == cache_call'.topic
       IN IF name \in DOMAIN topic_caches
            THEN /\ cache_call'.ret = FALSE
                 /\ topic_caches' = topic_caches
            ELSE /\ cache_call'.ret = TRUE
                 /\ DOMAIN topic_caches' = DOMAIN topic_caches \cup {name}
                 /\ topic_caches'[name].history_cache.changes = <<>>
                 /\ topic_caches'[name].topic_qos = "qos_none"
                 /\ topic_caches'[name].topic_kind = cache_call'.kind
                 /\ topic_caches'[name].topic_data_type_name = cache_call'.type_name
                 /\ \A other \in DOMAIN topic_caches :
                      topic_caches'[other] = topic_caches[other]]_vars

C10_Witness ==
  /\ cache_call.op = "add_new_topic"
  /\ cache_call.ret = FALSE
  /\ topic_caches[cache_call.topic].topic_kind # cache_call.kind
  /\ topic_caches[cache_call.topic].topic_qos # "qos_none"
  /\ Len(topic_caches[cache_call.topic].history_cache.changes) >= 2

\* C11: an unknown topic never fails - for a topic name that is not in the
\* cache, from_topic_get_change and both QoS getters return none,
\* from_topic_get_changes_in_range returns an empty vector (whatever the two
\* instants), and to_topic_add_change returns without creating the topic or
\* changing any other topic; none of them panics.
C11_UnknownTopic ==
  [][LET c == cache_call'
     IN (/\ c.op \in {"get_topic_qos_mut", "get_topic_qos", "from_topic_get_change",
                     "from_topic_get_changes_in_range", "to_topic_add_change"}
         /\ c.topic \notin DOMAIN topic_caches) =>
          /\ ~c.panicked
          /\ ~cache_panicked'
          /\ topic_caches' = topic_caches
          /\ c.op \in {"get_topic_qos_mut", "get_topic_qos", "from_topic_get_change"} =>
                c.ret = None
          /\ c.op = "from_topic_get_changes_in_range" => c.ret = <<>>]_vars

C11_Witness ==
  /\ cache_call.op = "to_topic_add_change"
  /\ cache_call.topic \notin DOMAIN topic_caches
  /\ ~cache_call.panicked
  /\ ~cache_panicked
  /\ \E other \in DOMAIN topic_caches :
       /\ Len(topic_caches[other].history_cache.changes) >= 1
       /\ from_topic_get_change(topic_caches, other, cache_call.instant) = None

\* a name behaves as an unknown topic in the map `caches`
BehavesUnknown(caches, name) ==
  /\ name \notin DOMAIN caches
  /\ get_topic_qos(caches, name) = None
  /\ get_topic_qos_mut(caches, name, "qos_1") = [ret |-> None, topic_caches |-> caches]
  /\ \A t \in Instants : from_topic_get_change(caches, name, t) = None
  /\ \A t \in Instants, u \in Instants, root_checked \in BOOLEAN :
       from_topic_get_changes_in_range(caches, name, t, u, root_checked)
         = [panicked |-> FALSE, ret |-> <<>>]
  /\ \A t \in Instants, c \in TopicChanges :
       to_topic_add_change(caches, name, t, c) = [panicked |-> FALSE, topic_caches |-> caches]

\* C12: remove_topic removes exactly the named topic - afterwards the name
\* behaves as an unknown topic, an add_new_topic of the same name returns
\* true and starts from an empty history, every other topic is as it was, and
\* remove_topic of a name that is not present changes nothing.
C12_RemoveTopic ==
  [][cache_call'.op = "remove_topic" =>
       LET name == cache_call'.topic
       IN /\ ~cache_call'.panicked
          /\ DOMAIN topic_caches' = DOMAIN topic_caches \ {name}
          /\ \A other \in DOMAIN topic_caches' : topic_caches'[other] = topic_caches[other]
          /\ name \notin DOMAIN topic_caches => topic_caches' = topic_caches
          /\ BehavesUnknown(topic_caches', name)
          /\ \A args \in TopicArgs :
               LET again == add_new_topic(topic_caches', name, args[1], args[2])
               IN /\ again.ret = TRUE
                  /\ again.topic_caches[name].history_cache.changes = <<>>
                  /\ \A t \in Instants :
                       from_topic_get_change(again.topic_caches, name, t) = None]_vars

C12_Witness ==
  /\ cache_call.op = "remove_topic"
  /\ cache_call.present
  /\ cache_call.dropped >= 2
  /\ cache_call.topic \notin DOMAIN topic_caches
  /\ \E other \in DOMAIN topic_caches :
       Len(topic_caches[other].history_cache.changes) >= 1

\* the change given by the first add_change(t, ..) of the log since t was last
\* absent (at the start, or after the last remove_change(t)); None if there is none
FirstSinceAbsent(log, t) ==
  LET removes == {i \in 1..Len(log) : log[i].op = "remove_change" /\ log[i].instant = t}
      r == IF removes = {} THEN 0 ELSE CHOOSE i \in removes : \A j \in removes : j <= i
      adds == {i \in (r + 1)..Len(log) : log[i].op = "add_change" /\ log[i].instant = t}
  IN IF adds = {} THEN None
     ELSE Some(log[CHOOSE i \in adds : \A j \in adds : i <= j].change)

\* C15: stored changes are immutable - in every reachable state of a history,
\* the change stored under instant t is the one given by the first
\* add_change(t, ..) since t was last absent; no later call, a rejected
\* duplicate-instant add_change included, replaces it.
C15_StoredImmutable ==
  \A t \in Instants : get_change([changes |-> changes], t) = FirstSinceAbsent(hc_log, t)

\* as long as no call has panicked, the stored change is the first one added
StoredImmutableUntilPanic ==
  ~hc_panicked => C15_StoredImmutable

\* C20: an inverted range is empty, not fatal - for any topic and instants
\* with start > end, from_topic_get_changes_in_range returns an empty vector
\* without panicking, whether or not the topic holds changes.
C20_InvertedRangeEmpty ==
  (/\ cache_call.op = "from_topic_get_changes_in_range"
   /\ cache_call.start > cache_call.end) =>
    /\ ~cache_call.panicked
    /\ ~cache_panicked
    /\ cache_call.ret = <<>>

\* what the code does: an inverted range panics on every topic that holds a
\* change, and returns the empty vector for a topic that does not exist
InvertedRangePanics ==
  (/\ cache_call.op = "from_topic_get_changes_in_range"
   /\ cache_call.start > cache_call.end) =>
    /\ cache_call.topic \notin DOMAIN topic_caches =>
         (~cache_call.panicked /\ cache_call.ret = <<>>)
    /\ (/\ cache_call.topic \in DOMAIN topic_caches
        /\ topic_caches[cache_call.topic].history_cache.changes # <<>>) =>
         cache_call.panicked

====
